---- MODULE Spec2Model ----
(***************************************************************************)
(* peak_alloc: a shim around the system allocator which maintains two      *)
(* process-wide atomic counters, CURRENT (bytes outstanding) and PEAK      *)
(* (high-water mark of CURRENT).  Model of src/src/lib.rs.                 *)
(*                                                                         *)
(* Every atomic access of the source (fetch_add, fetch_max, fetch_sub,     *)
(* load, store) is one step of the model; the calls of one operation are   *)
(* separate steps, so that the threads interleave between them.  All       *)
(* accesses are Ordering::Relaxed: the read-modify-write operations of one *)
(* counter are totally ordered (its modification order), which is what the *)
(* interleaving below provides.                                            *)
(***************************************************************************)
EXTENDS Integers, FiniteSets, Sequences, TLC

\* ------------------------------------------------------------------ bounds
\* Blocks the system allocator can hand out.
MaxBlocks == 2
\* Calls of the shim's operations in a
\* behaviour of Spec (any interleaving) and of SpecSeq (one call at a time).
MaxCalls == 3
MaxSeqCalls == 4
MaxLiveCalls == 2

\* --------------------------------------------------------------- constants
\* Width of usize, the type of both counters (a 16-bit target).
UsizeBits == 16
Modulus == 2 ^ UsizeBits

Threads == {"t1", "t2"}
Blocks == 1 .. MaxBlocks
\* The layout sizes the callers request.
Sizes == {500, 1000, 2000, 4000}
\* The null pointer; the non-null pointers are the blocks.
Null == 0

AllocOps == {"alloc", "alloc_zeroed", "realloc"}
RawQueries == {"current_usage", "peak_usage"}
CurrentQueries == {"current_usage", "current_usage_as_kb", "current_usage_as_mb",
                   "current_usage_as_gb"}
PeakQueries == {"peak_usage", "peak_usage_as_kb", "peak_usage_as_mb", "peak_usage_as_gb"}
Queries == CurrentQueries \cup PeakQueries

VARIABLES
    CURRENT,        \* static CURRENT: AtomicUsize
    PEAK,           \* static PEAK: AtomicUsize
    heap,           \* System allocator: block -> size of the region, 0 when free
    owned,          \* the blocks the program holds and may free or reallocate
    pc,             \* thread -> position in its operation
    op,             \* thread -> the operation it executes
    size,           \* thread -> layout.size()
    new_size,       \* thread -> new_size of realloc
    ptr,            \* thread -> ptr of dealloc and realloc
    ret,            \* thread -> pointer the operation returns
    prev,           \* thread -> prev of add_memory (0 outside add_memory)
    loaded,         \* thread -> value read by CURRENT.load / PEAK.load, until it is used
    fret,           \* thread -> the f32 a unit-scaled query returns
    bytes,          \* thread -> contents of the region alloc_zeroed is to return
    stopped,        \* the threads that will never run again
    calls,          \* number of operations called so far
    \* history variables (they record the execution, they do not steer it)
    maxCurrent,     \* the largest value CURRENT has held
    held,           \* the values CURRENT has held
    everReset,      \* reset_peak_usage has been called
    everConcurrent, \* two operations have overlapped
    solo,           \* thread -> no other thread was in an operation during this one
    entry,          \* thread -> counters when its operation was called (kept while solo)
    afterReset,     \* the last thing that happened is a solo reset_peak_usage returning
    lin             \* the counter values the linearizations of the history allow

vars == <<CURRENT, PEAK, heap, owned, pc, op, size, new_size, ptr, ret, prev,
          loaded, fret, bytes, stopped, calls, maxCurrent, held, everReset, everConcurrent, solo, entry,
          afterReset, lin>>

prog == <<heap, owned, op, size, new_size, ptr, ret, prev, loaded, fret, bytes>>
hist == <<maxCurrent, held, everReset, everConcurrent, solo, entry, afterReset, lin>>

Max(a, b) == IF a >= b THEN a ELSE b

\* usize arithmetic of the atomic read-modify-write operations (wrapping).
wrapping_add(a, b) == (a + b) % Modulus
wrapping_sub(a, b) == (a - b + Modulus) % Modulus

\* ---------------------------------------------------------------- f32
\* An f32 is written [m, e] and stands for m * 2^e, with m < 2^24 (or m = 2^24
\* when rounding carried into the next binade); zero is [0, 0].
MantissaBits == 24
NoFloat == [m |-> 0, e |-> 0]

\* Number of significant bits of x.
RECURSIVE BitLen(_)
BitLen(x) == IF x = 0 THEN 0 ELSE 1 + BitLen(x \div 2)

\* `x as f32' dropping the low bits instead of rounding to nearest.
usize_as_f32_truncating(x) ==
    IF BitLen(x) <= MantissaBits THEN [m |-> x, e |-> 0]
    ELSE LET s == BitLen(x) - MantissaBits
         IN [m |-> x \div (2 ^ s), e |-> s]

\* `x as f32': exact up to 24 significant bits, beyond that rounded to the
\* nearest f32, ties to the even mantissa.
usize_as_f32(x) ==
    IF BitLen(x) <= MantissaBits THEN [m |-> x, e |-> 0]
    ELSE LET s == BitLen(x) - MantissaBits
             q == x \div (2 ^ s)
             r == x % (2 ^ s)
             half == 2 ^ (s - 1)
             up == r > half \/ (r = half /\ q % 2 = 1)
         IN [m |-> IF up THEN q + 1 ELSE q, e |-> s]

\* f / 2^k in f32: exact, the divisor being a power of two and the quotient
\* far above the subnormal range.
f32_div_pow2(f, k) == IF f.m = 0 THEN f ELSE [m |-> f.m, e |-> f.e - k]

\* fn kb, fn mb, fn gb: the divisors 1024.0, 1024.0 * 1024.0 and
\* 1024.0 * 1024.0 * 1024.0 are the f32 values 2^10, 2^20 and 2^30.
kb(x) == f32_div_pow2(usize_as_f32(x), 10)
mb(x) == f32_div_pow2(usize_as_f32(x), 20)
gb(x) == f32_div_pow2(usize_as_f32(x), 30)

\* What `a + b' on usize does: the sum when it fits; when it does not, a
\* build with overflow checks (the default of debug builds) panics with
\* "attempt to add with overflow" and a build without them wraps.
usize_add_outcomes(a, b) ==
    IF a + b < Modulus THEN {"sum"} ELSE {"wrap", "panic"}

\* What the region System.alloc returns can hold: it is not initialised, so
\* its bytes may all be zero or not.
Contents == {"zero", "nonzero"}

\* What System.alloc can return: null (it may fail at any time), or a free
\* block.  Which free block it is makes no difference to the shim, which only
\* tests the pointer for null: the model takes the lowest one.
System_alloc ==
    {Null} \cup {b \in Blocks : heap[b] = 0 /\ \A a \in 1 .. b - 1 : heap[a] # 0}
Quiescent == \A t \in Threads : pc[t] = "idle"

NoEntry == [c |-> 0, p |-> 0, follows_reset |-> FALSE]

\* ------------------------------------------------- sequential counter model
\* The effect of add_memory, sub_memory and reset_peak_usage when each runs
\* alone, on a pair of counter values; done is the set of threads whose
\* pending operation has already taken effect in this linearization.
SeqAdd(cfg, n) == [cfg EXCEPT !.c = wrapping_add(cfg.c, n),
                              !.p = Max(cfg.p, wrapping_add(cfg.c, n))]
SeqSub(cfg, n) == [cfg EXCEPT !.c = wrapping_sub(cfg.c, n)]
SeqReset(cfg) == [cfg EXCEPT !.p = cfg.c]

NoOp == [k |-> "none", n |-> 0]
SeqApply(cfg, o) ==
    IF o.k = "add" THEN SeqAdd(cfg, o.n)
    ELSE IF o.k = "reset" THEN SeqReset(cfg)
    ELSE cfg

\* add_memory called with layout.size() everywhere, in realloc too.
AddArg_layout_size(t) == size[t]

\* The size add_memory is called with: new_size in realloc, layout.size() otherwise.
AddArg(t) == IF op[t] = "realloc" THEN new_size[t] ELSE size[t]

\* The counter operation thread t has called and not yet returned from.
Pending(t) ==
    IF pc[t] \in {"add_fetch", "add_max"} THEN [k |-> "add", n |-> AddArg(t)]
    ELSE IF pc[t] = "reset_store" THEN [k |-> "reset", n |-> 0]
    ELSE NoOp
PendingAll == [t \in Threads |-> Pending(t)]

LinStep(S, pend) ==
    S \cup {[SeqApply(cfg, pend[t]) EXCEPT !.done = cfg.done \cup {t}] :
              <<cfg, t>> \in {x \in S \X Threads :
                                pend[x[2]].k # "none" /\ x[2] \notin x[1].done}}

RECURSIVE LinClose(_, _, _)
LinClose(S, pend, n) == IF n = 0 THEN S ELSE LinClose(LinStep(S, pend), pend, n - 1)

\* thread t calls counter operation o
LinInvoke(t, o) == LinClose(lin, [PendingAll EXCEPT ![t] = o], Cardinality(Threads))
\* the counter operation of thread t returns
LinRespond(t) == {[cfg EXCEPT !.done = cfg.done \ {t}] : cfg \in {x \in lin : t \in x.done}}
\* sub_memory(n): a single atomic step, called and returned at once
LinSub(n) == LinClose({SeqSub(cfg, n) : cfg \in lin}, PendingAll, Cardinality(Threads))

\* ------------------------------------------------------------------- Init
Init ==
    /\ CURRENT = 0
    /\ PEAK = 0
    /\ heap = [b \in Blocks |-> 0]
    /\ owned = {}
    /\ pc = [t \in Threads |-> "idle"]
    /\ op = [t \in Threads |-> "none"]
    /\ size = [t \in Threads |-> 0]
    /\ new_size = [t \in Threads |-> 0]
    /\ ptr = [t \in Threads |-> Null]
    /\ ret = [t \in Threads |-> Null]
    /\ prev = [t \in Threads |-> 0]
    /\ loaded = [t \in Threads |-> 0]
    /\ fret = [t \in Threads |-> NoFloat]
    /\ bytes = [t \in Threads |-> "none"]
    /\ stopped = {}
    /\ calls = 0
    /\ maxCurrent = 0
    /\ held = {0}
    /\ everReset = FALSE
    /\ everConcurrent = FALSE
    /\ solo = [t \in Threads |-> FALSE]
    /\ entry = [t \in Threads |-> NoEntry]
    /\ afterReset = FALSE
    /\ lin = {[c |-> 0, p |-> 0, done |-> {}]}

\* Thread t calls the operation o: what the history variables record.
Call(t, o) ==
    /\ pc[t] = "idle"
    /\ calls' = calls + 1
    /\ op' = [op EXCEPT ![t] = o]
    /\ everConcurrent' = (everConcurrent \/ \E u \in Threads \ {t} : pc[u] # "idle")
    /\ solo' = [u \in Threads |-> u = t /\ \A v \in Threads \ {t} : pc[v] = "idle"]
    /\ entry' = [u \in Threads |->
                   IF solo'[u] THEN [c |-> CURRENT, p |-> PEAK, follows_reset |-> afterReset]
                   ELSE NoEntry]
    /\ afterReset' = FALSE
    /\ everReset' = (everReset \/ o = "reset_peak_usage")

\* ------------------------------------------------------------ GlobalAlloc
\* alloc without the null test: add_memory is called whatever System.alloc returned.
alloc_unchecked(t, n) ==
    /\ UNCHANGED <<bytes, stopped>>
    /\ Call(t, "alloc")
    /\ size' = [size EXCEPT ![t] = n]
    /\ \E r \in System_alloc :
        /\ ret' = [ret EXCEPT ![t] = r]
        /\ heap' = IF r = Null THEN heap ELSE [heap EXCEPT ![r] = n]
        /\ pc' = [pc EXCEPT ![t] = "add_fetch"]
        /\ lin' = LinInvoke(t, [k |-> "add", n |-> n])
    /\ UNCHANGED <<CURRENT, PEAK, owned, new_size, ptr, prev, loaded, fret, maxCurrent, held>>

\* alloc: System.alloc(layout); add_memory only when the result is not null.
alloc(t, n) ==
    /\ UNCHANGED <<bytes, stopped>>
    /\ Call(t, "alloc")
    /\ size' = [size EXCEPT ![t] = n]
    /\ \E r \in System_alloc :
        /\ ret' = [ret EXCEPT ![t] = r]
        /\ heap' = IF r = Null THEN heap ELSE [heap EXCEPT ![r] = n]
        /\ pc' = [pc EXCEPT ![t] = IF r # Null THEN "add_fetch" ELSE "ret"]
        /\ lin' = IF r # Null THEN LinInvoke(t, [k |-> "add", n |-> n]) ELSE lin
    /\ UNCHANGED <<CURRENT, PEAK, owned, new_size, ptr, prev, loaded, fret, maxCurrent, held>>

\* alloc_zeroed: System.alloc(layout), add_memory, then write_bytes.
alloc_zeroed(t, n) ==
    /\ UNCHANGED stopped
    /\ Call(t, "alloc_zeroed")
    /\ size' = [size EXCEPT ![t] = n]
    /\ \E r \in System_alloc, c \in Contents :
        /\ ret' = [ret EXCEPT ![t] = r]
        /\ bytes' = [bytes EXCEPT ![t] = IF r # Null THEN c ELSE "none"]
        /\ heap' = IF r = Null THEN heap ELSE [heap EXCEPT ![r] = n]
        /\ pc' = [pc EXCEPT ![t] = IF r # Null THEN "add_fetch" ELSE "ret"]
        /\ lin' = IF r # Null THEN LinInvoke(t, [k |-> "add", n |-> n]) ELSE lin
    /\ UNCHANGED <<CURRENT, PEAK, owned, new_size, ptr, prev, loaded, fret, maxCurrent, held>>

\* realloc without the null test: the old block is released and the counters are
\* updated whatever System.alloc returned.
realloc_unchecked(t, b, n) ==
    /\ UNCHANGED <<bytes, stopped>>
    /\ Call(t, "realloc")
    /\ b \in owned
    /\ owned' = owned \ {b}
    /\ ptr' = [ptr EXCEPT ![t] = b]
    /\ size' = [size EXCEPT ![t] = heap[b]]
    /\ new_size' = [new_size EXCEPT ![t] = n]
    /\ \E r \in System_alloc :
        /\ ret' = [ret EXCEPT ![t] = r]
        /\ heap' = IF r = Null THEN heap ELSE [heap EXCEPT ![r] = n]
        /\ pc' = [pc EXCEPT ![t] = "add_fetch"]
        /\ lin' = LinInvoke(t, [k |-> "add", n |-> n])
    /\ UNCHANGED <<CURRENT, PEAK, prev, loaded, fret, maxCurrent, held>>

\* realloc: System.alloc(new_layout) first; the old block is released only
\* when the new one was obtained.  The caller gives up ptr for the call.
realloc(t, b, n) ==
    /\ UNCHANGED <<bytes, stopped>>
    /\ Call(t, "realloc")
    /\ b \in owned
    /\ owned' = owned \ {b}
    /\ ptr' = [ptr EXCEPT ![t] = b]
    /\ size' = [size EXCEPT ![t] = heap[b]]
    /\ new_size' = [new_size EXCEPT ![t] = n]
    /\ \E r \in System_alloc :
        /\ ret' = [ret EXCEPT ![t] = r]
        /\ heap' = IF r = Null THEN heap ELSE [heap EXCEPT ![r] = n]
        /\ pc' = [pc EXCEPT ![t] = IF r # Null THEN "add_fetch" ELSE "ret"]
        /\ lin' = IF r # Null THEN LinInvoke(t, [k |-> "add", n |-> n]) ELSE lin
    /\ UNCHANGED <<CURRENT, PEAK, prev, loaded, fret, maxCurrent, held>>

\* dealloc: System.dealloc(ptr, layout), then sub_memory(layout.size()).
dealloc(t, b) ==
    /\ UNCHANGED <<bytes, stopped>>
    /\ Call(t, "dealloc")
    /\ b \in owned
    /\ owned' = owned \ {b}
    /\ ptr' = [ptr EXCEPT ![t] = b]
    /\ size' = [size EXCEPT ![t] = heap[b]]
    /\ heap' = [heap EXCEPT ![b] = 0]
    /\ pc' = [pc EXCEPT ![t] = "sub"]
    /\ UNCHANGED <<CURRENT, PEAK, new_size, ret, prev, loaded, fret, maxCurrent, held, lin>>

\* ------------------------------------------------------------- add_memory
\* add_memory as a critical section: the fetch_add waits until no other
\* thread is between its own fetch_add and fetch_max.
add_memory_fetch_add_locked(t) ==
    /\ UNCHANGED <<bytes, stopped>>
    /\ pc[t] = "add_fetch"
    /\ \A u \in Threads \ {t} : pc[u] # "add_max"
    /\ prev' = [prev EXCEPT ![t] = CURRENT]
    /\ CURRENT' = wrapping_add(CURRENT, AddArg(t))
    /\ maxCurrent' = Max(maxCurrent, CURRENT')
    /\ held' = held \cup {CURRENT'}
    /\ pc' = [pc EXCEPT ![t] = "add_max"]
    /\ UNCHANGED <<PEAK, heap, owned, op, size, new_size, ptr, ret, loaded, fret, calls,
                   everReset, everConcurrent, solo, entry, afterReset, lin>>

\* let prev = CURRENT.fetch_add(size, Relaxed);
add_memory_fetch_add(t) ==
    /\ UNCHANGED <<bytes, stopped>>
    /\ pc[t] = "add_fetch"
    /\ prev' = [prev EXCEPT ![t] = CURRENT]
    /\ CURRENT' = wrapping_add(CURRENT, AddArg(t))
    /\ maxCurrent' = Max(maxCurrent, CURRENT')
    /\ held' = held \cup {CURRENT'}
    /\ pc' = [pc EXCEPT ![t] = "add_max"]
    /\ UNCHANGED <<PEAK, heap, owned, op, size, new_size, ptr, ret, loaded, fret, calls,
                   everReset, everConcurrent, solo, entry, afterReset, lin>>

\* add_memory raising the peak with the value fetch_add returned, the
\* pre-increment one: PEAK.fetch_max(prev, Relaxed).
add_memory_fetch_max_prev(t) ==
    /\ UNCHANGED <<bytes, stopped>>
    /\ pc[t] = "add_max"
    /\ PEAK' = Max(PEAK, prev[t])
    /\ pc' = [pc EXCEPT ![t] = IF op[t] = "alloc" THEN "ret"
                               ELSE IF op[t] = "alloc_zeroed" THEN "write_bytes"
                               ELSE "release"]
    /\ prev' = [prev EXCEPT ![t] = 0]
    /\ lin' = LinRespond(t)
    /\ UNCHANGED <<CURRENT, heap, owned, op, size, new_size, ptr, ret, loaded, fret,
                   calls, maxCurrent, held, everReset, everConcurrent, solo, entry, afterReset>>

\* add_memory writing the peak without comparing: PEAK.store(prev + size, Relaxed).
add_memory_store(t) ==
    /\ UNCHANGED <<bytes, stopped>>
    /\ pc[t] = "add_max"
    /\ PEAK' = wrapping_add(prev[t], AddArg(t))
    /\ pc' = [pc EXCEPT ![t] = IF op[t] = "alloc" THEN "ret"
                               ELSE IF op[t] = "alloc_zeroed" THEN "write_bytes"
                               ELSE "release"]
    /\ prev' = [prev EXCEPT ![t] = 0]
    /\ lin' = LinRespond(t)
    /\ UNCHANGED <<CURRENT, heap, owned, op, size, new_size, ptr, ret, loaded, fret,
                   calls, maxCurrent, held, everReset, everConcurrent, solo, entry, afterReset>>

\* realloc accounted as a resize in place: the peak is offered the net value,
\* without the old block counted beside the new one.
add_memory_fetch_max_net(t) ==
    /\ UNCHANGED <<bytes, stopped>>
    /\ pc[t] = "add_max"
    /\ PEAK' = Max(PEAK, IF op[t] = "realloc"
                         THEN wrapping_sub(wrapping_add(prev[t], new_size[t]), size[t])
                         ELSE wrapping_add(prev[t], size[t]))
    /\ pc' = [pc EXCEPT ![t] = IF op[t] = "alloc" THEN "ret"
                               ELSE IF op[t] = "alloc_zeroed" THEN "write_bytes"
                               ELSE "release"]
    /\ prev' = [prev EXCEPT ![t] = 0]
    /\ lin' = LinRespond(t)
    /\ UNCHANGED <<CURRENT, heap, owned, op, size, new_size, ptr, ret, loaded, fret,
                   calls, maxCurrent, held, everReset, everConcurrent, solo, entry, afterReset>>

\* add_memory adding the size to PEAK as it does to CURRENT.
add_memory_peak_fetch_add(t) ==
    /\ UNCHANGED <<bytes, stopped>>
    /\ pc[t] = "add_max"
    /\ PEAK' = wrapping_add(PEAK, AddArg(t))
    /\ pc' = [pc EXCEPT ![t] = IF op[t] = "alloc" THEN "ret"
                               ELSE IF op[t] = "alloc_zeroed" THEN "write_bytes"
                               ELSE "release"]
    /\ prev' = [prev EXCEPT ![t] = 0]
    /\ lin' = LinRespond(t)
    /\ UNCHANGED <<CURRENT, heap, owned, op, size, new_size, ptr, ret, loaded, fret,
                   calls, maxCurrent, held, everReset, everConcurrent, solo, entry, afterReset>>

\* PEAK.fetch_max(prev + size, Relaxed): `prev + size' is the checked `+' of
\* usize, so when the sum overflows the build decides what happens; the
\* thread that panics runs no further step of the shim.
add_memory_fetch_max(t) ==
    /\ UNCHANGED <<bytes, stopped>>
    /\ pc[t] = "add_max"
    /\ \E outcome \in usize_add_outcomes(prev[t], AddArg(t)) :
        /\ PEAK' = IF outcome = "panic" THEN PEAK
                   ELSE Max(PEAK, wrapping_add(prev[t], AddArg(t)))
        /\ pc' = [pc EXCEPT ![t] = IF outcome = "panic" THEN "panicked"
                                   ELSE IF op[t] = "alloc" THEN "ret"
                                   ELSE IF op[t] = "alloc_zeroed" THEN "write_bytes"
                                   ELSE "release"]
        /\ lin' = IF outcome = "panic" THEN lin ELSE LinRespond(t)
    /\ prev' = [prev EXCEPT ![t] = 0]
    /\ UNCHANGED <<CURRENT, heap, owned, op, size, new_size, ptr, ret, loaded, fret,
                   calls, maxCurrent, held, everReset, everConcurrent, solo, entry, afterReset>>

\* alloc_zeroed returning the region as System.alloc delivered it.
write_bytes_skipped(t) ==
    /\ UNCHANGED stopped
    /\ pc[t] = "write_bytes"
    /\ pc' = [pc EXCEPT ![t] = "ret"]
    /\ UNCHANGED <<CURRENT, PEAK, calls>>
    /\ UNCHANGED prog
    /\ UNCHANGED hist

\* alloc_zeroed: std::ptr::write_bytes(ret, 0, size), after the accounting.
write_bytes(t) ==
    /\ UNCHANGED stopped
    /\ pc[t] = "write_bytes"
    /\ bytes' = [bytes EXCEPT ![t] = "zero"]
    /\ pc' = [pc EXCEPT ![t] = "ret"]
    /\ UNCHANGED <<CURRENT, PEAK, heap, owned, op, size, new_size, ptr, ret, prev, loaded,
                   fret, calls>>
    /\ UNCHANGED hist

\* realloc: copy_nonoverlapping(ptr, new_ptr, min(size, new_size)) and
\* System.dealloc(ptr, layout); both touch only blocks this thread holds.
realloc_release(t) ==
    /\ UNCHANGED stopped
    /\ pc[t] = "release"
    /\ heap' = [heap EXCEPT ![ptr[t]] = 0]
    /\ pc' = [pc EXCEPT ![t] = "sub"]
    /\ UNCHANGED <<CURRENT, PEAK, owned, op, size, new_size, ptr, ret, prev, loaded, fret,
                   bytes, calls>>
    /\ UNCHANGED hist

\* ------------------------------------------------------------- sub_memory
\* realloc debiting the size it credited (new_size) instead of the old size.
sub_memory_symmetric(t) ==
    /\ UNCHANGED <<bytes, stopped>>
    /\ pc[t] = "sub"
    /\ CURRENT' = wrapping_sub(CURRENT, AddArg(t))
    /\ maxCurrent' = Max(maxCurrent, CURRENT')
    /\ held' = held \cup {CURRENT'}
    /\ lin' = LinSub(AddArg(t))
    /\ pc' = [pc EXCEPT ![t] = "ret"]
    /\ UNCHANGED <<PEAK, heap, owned, op, size, new_size, ptr, ret, prev, loaded, fret, calls,
                   everReset, everConcurrent, solo, entry, afterReset>>

\* sub_memory lowering the peak along with the current value.
sub_memory_lowers_peak(t) ==
    /\ UNCHANGED <<bytes, stopped>>
    /\ pc[t] = "sub"
    /\ CURRENT' = wrapping_sub(CURRENT, size[t])
    /\ PEAK' = wrapping_sub(PEAK, size[t])
    /\ maxCurrent' = Max(maxCurrent, CURRENT')
    /\ held' = held \cup {CURRENT'}
    /\ lin' = LinSub(size[t])
    /\ pc' = [pc EXCEPT ![t] = "ret"]
    /\ UNCHANGED <<heap, owned, op, size, new_size, ptr, ret, prev, loaded, fret, calls,
                   everReset, everConcurrent, solo, entry, afterReset>>

\* CURRENT.fetch_sub(size, Relaxed);
sub_memory(t) ==
    /\ UNCHANGED <<bytes, stopped>>
    /\ pc[t] = "sub"
    /\ CURRENT' = wrapping_sub(CURRENT, size[t])
    /\ maxCurrent' = Max(maxCurrent, CURRENT')
    /\ held' = held \cup {CURRENT'}
    /\ lin' = LinSub(size[t])
    /\ pc' = [pc EXCEPT ![t] = "ret"]
    /\ UNCHANGED <<PEAK, heap, owned, op, size, new_size, ptr, ret, prev, loaded, fret, calls,
                   everReset, everConcurrent, solo, entry, afterReset>>

\* ------------------------------------------------------- reset_peak_usage
\* PEAK.store(CURRENT.load(Relaxed), Relaxed): the load ...
reset_peak_usage_load(t) ==
    /\ UNCHANGED <<bytes, stopped>>
    /\ Call(t, "reset_peak_usage")
    /\ loaded' = [loaded EXCEPT ![t] = CURRENT]
    /\ pc' = [pc EXCEPT ![t] = "reset_store"]
    /\ UNCHANGED fret
    /\ lin' = LinInvoke(t, [k |-> "reset", n |-> 0])
    /\ UNCHANGED <<CURRENT, PEAK, heap, owned, size, new_size, ptr, ret, prev, maxCurrent, held>>

\* reset_peak_usage resetting the peak to zero: PEAK.store(0, Relaxed).
reset_peak_usage_store_zero(t) ==
    /\ UNCHANGED <<bytes, stopped>>
    /\ pc[t] = "reset_store"
    /\ PEAK' = 0
    /\ pc' = [pc EXCEPT ![t] = "ret"]
    /\ loaded' = [loaded EXCEPT ![t] = 0]
    /\ UNCHANGED fret
    /\ lin' = LinRespond(t)
    /\ UNCHANGED <<CURRENT, heap, owned, op, size, new_size, ptr, ret, prev,
                   calls, maxCurrent, held, everReset, everConcurrent, solo, entry, afterReset>>

\* ... and the store.
reset_peak_usage_store(t) ==
    /\ UNCHANGED <<bytes, stopped>>
    /\ pc[t] = "reset_store"
    /\ PEAK' = loaded[t]
    /\ pc' = [pc EXCEPT ![t] = "ret"]
    /\ loaded' = [loaded EXCEPT ![t] = 0]
    /\ UNCHANGED fret
    /\ lin' = LinRespond(t)
    /\ UNCHANGED <<CURRENT, heap, owned, op, size, new_size, ptr, ret, prev,
                   calls, maxCurrent, held, everReset, everConcurrent, solo, entry, afterReset>>

\* ---------------------------------------------------------------- queries
\* current_usage: CURRENT.load(Relaxed)
current_usage(t) ==
    /\ UNCHANGED <<bytes, stopped>>
    /\ Call(t, "current_usage")
    /\ loaded' = [loaded EXCEPT ![t] = CURRENT]
    /\ UNCHANGED fret
    /\ pc' = [pc EXCEPT ![t] = "ret"]
    /\ UNCHANGED <<CURRENT, PEAK, heap, owned, size, new_size, ptr, ret, prev,
                   maxCurrent, held, lin>>

\* peak_usage loading the wrong counter: CURRENT.load(Relaxed).
peak_usage_loads_current(t) ==
    /\ UNCHANGED <<bytes, stopped>>
    /\ Call(t, "peak_usage")
    /\ loaded' = [loaded EXCEPT ![t] = CURRENT]
    /\ UNCHANGED fret
    /\ pc' = [pc EXCEPT ![t] = "ret"]
    /\ UNCHANGED <<CURRENT, PEAK, heap, owned, size, new_size, ptr, ret, prev,
                   maxCurrent, held, lin>>

\* peak_usage: PEAK.load(Relaxed)
peak_usage(t) ==
    /\ UNCHANGED <<bytes, stopped>>
    /\ Call(t, "peak_usage")
    /\ loaded' = [loaded EXCEPT ![t] = PEAK]
    /\ UNCHANGED fret
    /\ pc' = [pc EXCEPT ![t] = "ret"]
    /\ UNCHANGED <<CURRENT, PEAK, heap, owned, size, new_size, ptr, ret, prev,
                   maxCurrent, held, lin>>

\* current_usage_as_kb: Self::kb(self.current_usage())
current_usage_as_kb(t) ==
    /\ UNCHANGED <<bytes, stopped>>
    /\ Call(t, "current_usage_as_kb")
    /\ loaded' = [loaded EXCEPT ![t] = CURRENT]
    /\ fret' = [fret EXCEPT ![t] = kb(CURRENT)]
    /\ pc' = [pc EXCEPT ![t] = "ret"]
    /\ UNCHANGED <<CURRENT, PEAK, heap, owned, size, new_size, ptr, ret, prev,
                   maxCurrent, held, lin>>

\* current_usage_as_mb: Self::mb(self.current_usage())
current_usage_as_mb(t) ==
    /\ UNCHANGED <<bytes, stopped>>
    /\ Call(t, "current_usage_as_mb")
    /\ loaded' = [loaded EXCEPT ![t] = CURRENT]
    /\ fret' = [fret EXCEPT ![t] = mb(CURRENT)]
    /\ pc' = [pc EXCEPT ![t] = "ret"]
    /\ UNCHANGED <<CURRENT, PEAK, heap, owned, size, new_size, ptr, ret, prev,
                   maxCurrent, held, lin>>

\* current_usage_as_gb: Self::gb(self.current_usage())
current_usage_as_gb(t) ==
    /\ UNCHANGED <<bytes, stopped>>
    /\ Call(t, "current_usage_as_gb")
    /\ loaded' = [loaded EXCEPT ![t] = CURRENT]
    /\ fret' = [fret EXCEPT ![t] = gb(CURRENT)]
    /\ pc' = [pc EXCEPT ![t] = "ret"]
    /\ UNCHANGED <<CURRENT, PEAK, heap, owned, size, new_size, ptr, ret, prev,
                   maxCurrent, held, lin>>

\* peak_usage_as_kb: Self::kb(self.peak_usage())
peak_usage_as_kb(t) ==
    /\ UNCHANGED <<bytes, stopped>>
    /\ Call(t, "peak_usage_as_kb")
    /\ loaded' = [loaded EXCEPT ![t] = PEAK]
    /\ fret' = [fret EXCEPT ![t] = kb(PEAK)]
    /\ pc' = [pc EXCEPT ![t] = "ret"]
    /\ UNCHANGED <<CURRENT, PEAK, heap, owned, size, new_size, ptr, ret, prev,
                   maxCurrent, held, lin>>

\* peak_usage_as_mb: Self::mb(self.peak_usage())
peak_usage_as_mb(t) ==
    /\ UNCHANGED <<bytes, stopped>>
    /\ Call(t, "peak_usage_as_mb")
    /\ loaded' = [loaded EXCEPT ![t] = PEAK]
    /\ fret' = [fret EXCEPT ![t] = mb(PEAK)]
    /\ pc' = [pc EXCEPT ![t] = "ret"]
    /\ UNCHANGED <<CURRENT, PEAK, heap, owned, size, new_size, ptr, ret, prev,
                   maxCurrent, held, lin>>

\* peak_usage_as_gb: Self::gb(self.peak_usage())
peak_usage_as_gb(t) ==
    /\ UNCHANGED <<bytes, stopped>>
    /\ Call(t, "peak_usage_as_gb")
    /\ loaded' = [loaded EXCEPT ![t] = PEAK]
    /\ fret' = [fret EXCEPT ![t] = gb(PEAK)]
    /\ pc' = [pc EXCEPT ![t] = "ret"]
    /\ UNCHANGED <<CURRENT, PEAK, heap, owned, size, new_size, ptr, ret, prev,
                   maxCurrent, held, lin>>

\* ----------------------------------------------------------------- return
\* The operation returns to its caller, which from now on holds the block an
\* allocation returned, and still holds ptr when realloc returned null.
Returned(t) ==
    IF op[t] \in AllocOps /\ ret[t] # Null THEN {ret[t]}
    ELSE IF op[t] = "realloc" THEN {ptr[t]}
    ELSE {}

return(t) ==
    /\ UNCHANGED stopped
    /\ pc[t] = "ret"
    /\ owned' = owned \cup Returned(t)
    /\ pc' = [pc EXCEPT ![t] = "idle"]
    /\ op' = [op EXCEPT ![t] = "none"]
    /\ size' = [size EXCEPT ![t] = 0]
    /\ new_size' = [new_size EXCEPT ![t] = 0]
    /\ ptr' = [ptr EXCEPT ![t] = Null]
    /\ ret' = [ret EXCEPT ![t] = Null]
    /\ prev' = [prev EXCEPT ![t] = 0]
    /\ loaded' = [loaded EXCEPT ![t] = 0]
    /\ fret' = [fret EXCEPT ![t] = NoFloat]
    /\ bytes' = [bytes EXCEPT ![t] = "none"]
    /\ solo' = [solo EXCEPT ![t] = FALSE]
    /\ entry' = [entry EXCEPT ![t] = NoEntry]
    /\ afterReset' = (op[t] = "reset_peak_usage" /\ solo[t])
    /\ UNCHANGED <<CURRENT, PEAK, heap, calls, maxCurrent, held, everReset, everConcurrent, lin>>

\* ------------------------------------------------------------ test harness
\* tests::test_issue_4 "neutralizes" the counters before it measures: it
\* stores 0 into CURRENT, then into PEAK, whatever is allocated at that time.
neutralize_current(t) ==
    /\ UNCHANGED stopped
    /\ Call(t, "neutralize")
    /\ CURRENT' = 0
    /\ held' = held \cup {CURRENT'}
    /\ pc' = [pc EXCEPT ![t] = "neutralize_peak"]
    /\ UNCHANGED <<PEAK, heap, owned, size, new_size, ptr, ret, prev, loaded, fret, bytes,
                   maxCurrent, lin>>

neutralize_peak(t) ==
    /\ UNCHANGED stopped
    /\ pc[t] = "neutralize_peak"
    /\ PEAK' = 0
    /\ pc' = [pc EXCEPT ![t] = "ret"]
    /\ UNCHANGED <<CURRENT, calls>>
    /\ UNCHANGED prog
    /\ UNCHANGED hist

\* The calls that change the counters, the queries, and the steps inside an
\* operation.
Mutator(t) ==
    \/ \E n \in Sizes : alloc(t, n)
    \/ \E n \in Sizes : alloc_zeroed(t, n)
    \/ \E b \in Blocks, n \in Sizes : realloc(t, b, n)
    \/ \E b \in Blocks : dealloc(t, b)
    \/ reset_peak_usage_load(t)

Query(t) ==
    \/ current_usage(t)
    \/ peak_usage(t)
    \/ current_usage_as_kb(t)
    \/ current_usage_as_mb(t)
    \/ current_usage_as_gb(t)
    \/ peak_usage_as_kb(t)
    \/ peak_usage_as_mb(t)
    \/ peak_usage_as_gb(t)

Internal(t) ==
    \/ add_memory_fetch_add(t)
    \/ add_memory_fetch_max(t)
    \/ write_bytes(t)
    \/ realloc_release(t)
    \/ sub_memory(t)
    \/ reset_peak_usage_store(t)
    \/ return(t)

\* Any number of threads, any interleaving of their atomic steps.
Next ==
    \E t \in Threads :
        \/ calls < MaxCalls /\ Mutator(t)
        \/ calls < MaxCalls /\ Query(t)
        \/ Internal(t)

Spec == Init /\ [][Next]_vars

\* Single-threaded use: an operation is called only when none is in progress.
NextSeq ==
    \E t \in Threads :
        \/ calls < MaxSeqCalls /\ Quiescent /\ Mutator(t)
        \/ calls < MaxSeqCalls /\ Quiescent /\ Query(t)
        \/ Internal(t)

SpecSeq == Init /\ [][NextSeq]_vars

\* Single-threaded use in which the caller also neutralizes the counters, as
\* the test does; blocks allocated before are then released against a
\* counter that no longer covers them.
NextHarness ==
    \E t \in Threads :
        \/ calls < MaxSeqCalls /\ Quiescent /\ Mutator(t)
        \/ calls < MaxSeqCalls /\ Quiescent /\ neutralize_current(t)
        \/ neutralize_peak(t)
        \/ Internal(t)

SpecHarness == Init /\ [][NextHarness]_vars

\* A thread is stopped for good between two steps of the operation it runs
\* (preempted and never rescheduled, or killed).
stop(t) ==
    /\ pc[t] # "idle"
    /\ t \notin stopped
    /\ stopped' = stopped \cup {t}
    /\ UNCHANGED <<CURRENT, PEAK, pc, calls>>
    /\ UNCHANGED prog
    /\ UNCHANGED hist

\* The next step of the operation thread t is in, unless t is stopped.
Step(t) == t \notin stopped /\ Internal(t)

\* Any interleaving, with threads that may stop anywhere; the scheduler is
\* fair to the threads that are not stopped.
NextLive ==
    \E t \in Threads :
        \/ calls < MaxLiveCalls /\ Mutator(t)
        \/ calls < MaxLiveCalls /\ Query(t)
        \/ Step(t)
        \/ stop(t)

SpecLive == Init /\ [][NextLive]_vars /\ \A t \in Threads : WF_vars(Step(t))

\* The unit conversions alone, on counters of any size: the program holds one
\* block of CURRENT bytes, and PEAK is a value CURRENT had before.  The values
\* reach beyond 2^24, where `as f32' rounds.
ConvInputs ==
    {0, 1, 1023, 1024, 4000, 1048576, 16777216, 16777217, 16777219, 33554435,
     1073741824, 2147483647}

InitConv ==
    /\ CURRENT \in ConvInputs
    /\ PEAK \in {p \in ConvInputs : p >= CURRENT}
    /\ heap = [b \in Blocks |-> IF b = 1 THEN CURRENT ELSE 0]
    /\ owned = {b \in Blocks : heap[b] # 0}
    /\ pc = [t \in Threads |-> "idle"]
    /\ op = [t \in Threads |-> "none"]
    /\ size = [t \in Threads |-> 0]
    /\ new_size = [t \in Threads |-> 0]
    /\ ptr = [t \in Threads |-> Null]
    /\ ret = [t \in Threads |-> Null]
    /\ prev = [t \in Threads |-> 0]
    /\ loaded = [t \in Threads |-> 0]
    /\ fret = [t \in Threads |-> NoFloat]
    /\ bytes = [t \in Threads |-> "none"]
    /\ stopped = {}
    /\ calls = 0
    /\ maxCurrent = PEAK
    /\ held = {CURRENT, PEAK}
    /\ everReset = FALSE
    /\ everConcurrent = FALSE
    /\ solo = [t \in Threads |-> FALSE]
    /\ entry = [t \in Threads |-> NoEntry]
    /\ afterReset = FALSE
    /\ lin = {[c |-> CURRENT, p |-> PEAK, done |-> {}]}

NextConv ==
    \E t \in Threads :
        \/ calls < MaxCalls /\ Query(t)
        \/ return(t)

SpecConv == InitConv /\ [][NextConv]_vars

TypeOK ==
    /\ CURRENT \in 0 .. Modulus - 1
    /\ PEAK \in 0 .. Modulus - 1
    /\ owned \subseteq Blocks

\* ================================================================== claims
RECURSIVE SumSizes(_)
SumSizes(S) ==
    IF S = {} THEN 0
    ELSE LET b == CHOOSE x \in S : TRUE IN heap[b] + SumSizes(S \ {b})

\* Bytes of the regions the system allocator has handed out and not got back.
Outstanding == SumSizes({b \in Blocks : heap[b] # 0})

\* Thread t is about to return from operation o, which ran with no other
\* operation in progress.
SoloRet(t, o) == pc[t] = "ret" /\ op[t] = o /\ solo[t]

\* C1: in every reachable state, the states between the atomic steps of an
\* operation included, PEAK >= CURRENT.
C1_PeakGeCurrent == PEAK >= CURRENT

\* C2: a successful alloc of n bytes with no concurrent operation, from
\* current = c and peak = p, ends with current = c + n and peak = max(p, c + n);
\* the dealloc of a block of n bytes ends with current = c - n and peak = p.
C2_AllocAccounting ==
    \A t \in Threads :
        /\ (SoloRet(t, "alloc") /\ ret[t] # Null) =>
              /\ CURRENT = entry[t].c + size[t]
              /\ PEAK = Max(entry[t].p, entry[t].c + size[t])
        /\ SoloRet(t, "dealloc") =>
              /\ CURRENT = entry[t].c - size[t]
              /\ PEAK = entry[t].p

\* Scenario A: from (0, 0), alloc 4000 then dealloc: current = 0, peak = 4000.
C2_Witness ==
    \E t \in Threads :
        /\ SoloRet(t, "dealloc")
        /\ size[t] = 4000
        /\ entry[t] = [c |-> 4000, p |-> 4000, follows_reset |-> FALSE]
        /\ CURRENT = 0
        /\ PEAK = 4000
        /\ calls = 2

\* C3: in single-threaded use without reset, after each call PEAK equals the
\* largest value CURRENT has held so far.
C3_PeakIsMaxCurrent ==
    ((\A t \in Threads : pc[t] \in {"idle", "ret"}) /\ ~everReset) => PEAK = maxCurrent

\* Scenario B, its end: two blocks of 3000 bytes together were allocated and
\* both released; current = 0 and peak = 3000.
C3_Witness ==
    /\ Quiescent
    /\ ~everReset
    /\ calls = 4
    /\ Outstanding = 0
    /\ CURRENT = 0
    /\ PEAK = 3000
    /\ maxCurrent = 3000

\* C4: once every call has returned, CURRENT is the sum of the sizes of the
\* blocks still outstanding.
C4_Conservation == Quiescent => CURRENT = Outstanding

\* Operations overlapped, a block was released and one is still outstanding.
C4_Witness ==
    /\ Quiescent
    /\ everConcurrent
    /\ Outstanding > 0
    /\ CURRENT = Outstanding
    /\ maxCurrent > CURRENT

\* C5: without reset_peak_usage, once all operations have completed PEAK is at
\* least every value CURRENT has held.
C5_NoLostHighWater == (Quiescent /\ ~everReset) => PEAK >= maxCurrent

\* Two allocations overlapped and both have returned.
C5_Witness ==
    /\ Quiescent
    /\ ~everReset
    /\ everConcurrent
    /\ calls = 2
    /\ owned = Blocks
    /\ PEAK = maxCurrent
    /\ PEAK = Outstanding

\* C6: once all operations have completed, (CURRENT, PEAK) are the values some
\* sequential execution of the same add, sub and reset operations produces, in
\* an order consistent with their real-time order.
C6_Linearizable ==
    Quiescent => \E cfg \in lin : cfg.c = CURRENT /\ cfg.p = PEAK

\* C7: reset_peak_usage with no concurrent operation sets PEAK to CURRENT and
\* leaves CURRENT unchanged; a successful allocation of n bytes that follows it
\* ends with PEAK = current_before + n.
C7_ResetToCurrent ==
    \A t \in Threads :
        /\ SoloRet(t, "reset_peak_usage") =>
              /\ CURRENT = entry[t].c
              /\ PEAK = CURRENT
        /\ (pc[t] = "ret" /\ solo[t] /\ op[t] \in AllocOps /\ ret[t] # Null
              /\ entry[t].follows_reset) =>
              PEAK = entry[t].c + AddArg(t)

\* Scenario C: after Scenario A (peak 4000) and a reset, alloc 500: peak = 500.
C7_Witness ==
    \E t \in Threads :
        /\ SoloRet(t, "alloc")
        /\ entry[t] = [c |-> 0, p |-> 0, follows_reset |-> TRUE]
        /\ size[t] = 500
        /\ maxCurrent = 4000
        /\ CURRENT = 500
        /\ PEAK = 500

\* C8: no step lowers PEAK, except the store of reset_peak_usage.
C8_PeakMonotone ==
    [][PEAK' >= PEAK \/ \E t \in Threads : pc[t] = "reset_store" /\ pc'[t] = "ret"]_vars

\* A reset has lowered the peak below a value CURRENT has held, and an
\* allocation made after it left the peak where it was.
C8_Witness ==
    /\ everReset
    /\ PEAK < maxCurrent
    /\ \E t \in Threads : pc[t] = "ret" /\ op[t] \in AllocOps /\ ret[t] # Null
                          /\ PEAK > CURRENT

\* C9: when System.alloc returns null to realloc, realloc returns null without
\* any further step, neither counter changes, the old block is not released and
\* the caller still holds it with its size; a dealloc lowers CURRENT by exactly
\* the size of its block.
C9_FailedReallocInert ==
    [][\A t \in Threads :
        /\ (pc[t] = "idle" /\ op'[t] = "realloc" /\ ret'[t] = Null) =>
              /\ pc'[t] = "ret"
              /\ CURRENT' = CURRENT /\ PEAK' = PEAK
              /\ heap' = heap
        /\ (pc[t] = "ret" /\ op[t] = "realloc" /\ ret[t] = Null /\ pc'[t] = "idle") =>
              /\ CURRENT' = CURRENT /\ PEAK' = PEAK
              /\ heap' = heap
              /\ ptr[t] \in owned'
              /\ heap'[ptr[t]] = size[t]
        /\ (pc[t] = "sub" /\ op[t] = "dealloc" /\ pc'[t] = "ret") =>
              CURRENT' = CURRENT - size[t]
    ]_vars

\* A realloc that ran alone is about to return null; the counters are those of
\* its call and its block is still allocated.
C9_Witness ==
    \E t \in Threads :
        /\ SoloRet(t, "realloc")
        /\ ret[t] = Null
        /\ CURRENT = entry[t].c
        /\ PEAK = entry[t].p
        /\ heap[ptr[t]] = size[t]
        /\ CURRENT = size[t]

\* C10: when System.alloc returns null to alloc or alloc_zeroed, the operation
\* returns null without any further step and neither counter changes; add_memory
\* runs only for an allocation that succeeded.
C10_FailedAllocInert ==
    [][\A t \in Threads :
        /\ (pc[t] = "idle" /\ op'[t] \in {"alloc", "alloc_zeroed"} /\ ret'[t] = Null) =>
              /\ pc'[t] = "ret"
              /\ CURRENT' = CURRENT /\ PEAK' = PEAK
        /\ (pc[t] = "ret" /\ op[t] \in {"alloc", "alloc_zeroed"} /\ ret[t] = Null
              /\ pc'[t] = "idle") =>
              /\ CURRENT' = CURRENT /\ PEAK' = PEAK
              /\ owned' = owned
        /\ (pc[t] \in {"add_fetch", "add_max"} /\ pc'[t] # pc[t]) => ret[t] # Null
    ]_vars

\* An alloc or alloc_zeroed that ran alone is about to return null, with the
\* counters of its call, which are not zero.
C10_Witness ==
    \E t \in Threads :
        /\ pc[t] = "ret" /\ solo[t]
        /\ op[t] \in {"alloc", "alloc_zeroed"}
        /\ ret[t] = Null
        /\ CURRENT = entry[t].c
        /\ PEAK = entry[t].p
        /\ CURRENT > 0

\* C11: a query changes neither counter (nor anything of the allocator), in
\* any state and between the steps of any other operation, and what it reads
\* is the value its register has at that moment.
C11_QueriesArePure ==
    [][\A t \in Threads :
        /\ (pc[t] = "idle" /\ op'[t] \in Queries) =>
              /\ pc'[t] = "ret"
              /\ CURRENT' = CURRENT /\ PEAK' = PEAK
              /\ heap' = heap /\ owned' = owned
              /\ op'[t] \in CurrentQueries => loaded'[t] = CURRENT
              /\ op'[t] \in PeakQueries => loaded'[t] = PEAK
        /\ (pc[t] = "ret" /\ op[t] \in Queries /\ pc'[t] = "idle") =>
              /\ CURRENT' = CURRENT /\ PEAK' = PEAK
              /\ heap' = heap /\ owned' = owned
    ]_vars

\* peak_usage has read PEAK, which differs from CURRENT, while another thread
\* is in the middle of an operation.
C11_Witness ==
    \E t \in Threads :
        /\ pc[t] = "ret" /\ op[t] = "peak_usage"
        /\ loaded[t] = PEAK
        /\ PEAK # CURRENT
        /\ \E u \in Threads \ {t} : pc[u] \in {"add_max", "sub", "reset_store"}

\* The power of two a unit-scaled query divides by.
UnitShift(o) ==
    IF o \in {"current_usage_as_kb", "peak_usage_as_kb"} THEN 10
    ELSE IF o \in {"current_usage_as_mb", "peak_usage_as_mb"} THEN 20
    ELSE 30

Abs(i) == IF i < 0 THEN -i ELSE i

\* The f32 f = m * 2^e is x / 2^k up to the rounding of one f32 operation:
\* |f * 2^k - x| <= x / 2^24.
WithinRounding(f, x, k) ==
    IF x = 0 THEN f.m = 0
    ELSE /\ f.e + k >= 0
         /\ LET u == 2 ^ (f.e + k)
            IN Abs((f.m - (x \div u)) * u - (x % u)) <= x \div (2 ^ MantissaBits)

\* C12: a unit-scaled query returns the counter value it read divided by 1024,
\* 1024^2 or 1024^3, within the rounding of f32.
C12_UnitConversion ==
    \A t \in Threads :
        (pc[t] = "ret" /\ op[t] \in Queries \ RawQueries) =>
            /\ loaded[t] = IF op[t] \in CurrentQueries THEN CURRENT ELSE PEAK
            /\ WithinRounding(fret[t], loaded[t], UnitShift(op[t]))

\* current_usage_as_mb of 2^24 + 3 bytes, which `as f32' rounds to 2^24 + 4:
\* the result is 8388610 * 2^-19.
C12_Witness ==
    \E t \in Threads :
        /\ pc[t] = "ret" /\ op[t] = "current_usage_as_mb"
        /\ loaded[t] = 16777219
        /\ fret[t] = [m |-> 8388610, e |-> -19]
\* C13: a successful realloc from old_size to new_size that ran with no
\* concurrent operation, called with current = c and peak = p: add(new_size) is
\* accounted while the old block is still allocated, the old block is released
\* before sub(old_size), and it ends with current = c + new_size - old_size and
\* peak = max(p, c + new_size).
C13_ReallocAccounting ==
    \A t \in Threads :
        (op[t] = "realloc" /\ solo[t] /\ ret[t] # Null) =>
            /\ pc[t] \in {"add_fetch", "add_max", "release"} => heap[ptr[t]] = size[t]
            /\ pc[t] = "release" =>
                  /\ CURRENT = entry[t].c + new_size[t]
                  /\ PEAK = Max(entry[t].p, entry[t].c + new_size[t])
            /\ pc[t] = "sub" =>
                  /\ heap[ptr[t]] = 0
                  /\ CURRENT = entry[t].c + new_size[t]
            /\ pc[t] = "ret" =>
                  /\ CURRENT = entry[t].c + new_size[t] - size[t]
                  /\ PEAK = Max(entry[t].p, entry[t].c + new_size[t])

\* A block shrinks from 4000 to 500 bytes: current 500, peak 4500.
C13_Witness ==
    \E t \in Threads :
        /\ SoloRet(t, "realloc")
        /\ ret[t] # Null
        /\ size[t] = 4000 /\ new_size[t] = 500
        /\ entry[t].c = 4000 /\ entry[t].p = 4000
        /\ CURRENT = 500
        /\ PEAK = 4500

\* C14: dealloc releases its block through the system allocator without
\* touching the counters, and only then sub_memory lowers CURRENT by exactly the
\* size of the block; no step of dealloc and no sub_memory changes PEAK.
C14_DeallocFrame ==
    [][\A t \in Threads :
        /\ (pc[t] = "idle" /\ op'[t] = "dealloc") =>
              /\ heap[ptr'[t]] # 0
              /\ size'[t] = heap[ptr'[t]]
              /\ heap'[ptr'[t]] = 0
              /\ pc'[t] = "sub"
              /\ CURRENT' = CURRENT /\ PEAK' = PEAK
        /\ (pc[t] = "sub" /\ pc'[t] # "sub") =>
              /\ CURRENT' = CURRENT - size[t]
              /\ PEAK' = PEAK
        /\ (op[t] = "dealloc" /\ pc'[t] # pc[t]) => PEAK' = PEAK
    ]_vars

\* A dealloc has lowered CURRENT while another thread was between its
\* increment of CURRENT and its update of PEAK.
C14_Witness ==
    \E t \in Threads :
        /\ pc[t] = "ret" /\ op[t] = "dealloc"
        /\ \E u \in Threads \ {t} : pc[u] = "add_max" /\ prev[u] > CURRENT
        /\ PEAK > 0
\* C15: alloc_zeroed accounts like alloc (on success current = c + n and
\* peak = max(p, c + n) when it ran alone, on failure nothing changes); the
\* counters are updated before the region is filled, and the region it returns
\* holds only zero bytes.
C15_AllocZeroed ==
    \A t \in Threads :
        op[t] = "alloc_zeroed" =>
            /\ (pc[t] = "ret" /\ ret[t] # Null) => bytes[t] = "zero"
            /\ (solo[t] /\ pc[t] \in {"write_bytes", "ret"} /\ ret[t] # Null) =>
                  /\ CURRENT = entry[t].c + size[t]
                  /\ PEAK = Max(entry[t].p, entry[t].c + size[t])
            /\ (solo[t] /\ pc[t] = "ret" /\ ret[t] = Null) =>
                  /\ CURRENT = entry[t].c
                  /\ PEAK = entry[t].p
            /\ bytes[t] = "nonzero" => pc[t] \in {"add_fetch", "add_max", "write_bytes"}

\* alloc_zeroed returns a zeroed region of 2000 bytes beside a block of 1000.
C15_Witness ==
    \E t \in Threads :
        /\ SoloRet(t, "alloc_zeroed")
        /\ ret[t] # Null
        /\ bytes[t] = "zero"
        /\ size[t] = 2000
        /\ entry[t].c = 1000
        /\ CURRENT = 3000
        /\ PEAK = 3000
\* The sizes the threads are about to debit with sub_memory.
RECURSIVE PendingSub(_)
PendingSub(T) ==
    IF T = {} THEN 0
    ELSE LET t == CHOOSE x \in T : TRUE
         IN  (IF pc[t] = "sub" THEN size[t] ELSE 0) + PendingSub(T \ {t})

\* C16: when dealloc and realloc are called on blocks an allocation has
\* returned, CURRENT is at least n whenever a sub_memory(n) is about to
\* execute, and at least the sum of all the debits about to execute, so that
\* fetch_sub never wraps below zero.
C16_NoUnderflow ==
    /\ \A t \in Threads : pc[t] = "sub" => CURRENT >= size[t]
    /\ CURRENT >= PendingSub(Threads)

\* A debit that takes CURRENT to zero is about to execute while the other
\* thread holds a block it has not credited yet.
C16_Witness ==
    \E t \in Threads, u \in Threads :
        /\ pc[t] = "sub"
        /\ size[t] > 0
        /\ CURRENT = size[t]
        /\ pc[u] = "add_fetch"
\* C17: add_memory cannot fail, also when current + n does not fit the counter:
\* its fetch_add step leaves CURRENT = (CURRENT + n) mod 2^w, and its fetch_max
\* step completes, without a panic, offering that same wrapped value to PEAK.
C17_AddCannotFail ==
    [][\A t \in Threads :
          /\ (pc[t] = "add_fetch" /\ pc'[t] # "add_fetch") =>
                /\ pc'[t] = "add_max"
                /\ CURRENT' = (CURRENT + AddArg(t)) % Modulus
          /\ (pc[t] = "add_max" /\ pc'[t] # "add_max") =>
                /\ pc'[t] # "panicked"
                /\ PEAK' = Max(PEAK, (prev[t] + AddArg(t)) % Modulus)
      ]_vars
\* C19: from current = peak = 0, in every state of every interleaving of the
\* shim's operations, reset_peak_usage included, PEAK is a value CURRENT held
\* at that or an earlier moment, hence at most the largest value CURRENT has
\* attained.
C19_PeakWasHeld ==
    /\ PEAK \in held
    /\ PEAK <= maxCurrent

\* A reset that raced with an alloc left PEAK at 1000, a value CURRENT held
\* before the alloc took it to its maximum.
C19_Witness ==
    /\ Quiescent
    /\ everReset
    /\ everConcurrent
    /\ PEAK = 1000
    /\ CURRENT > PEAK
    /\ maxCurrent = CURRENT

\* How far the steps of an operation are from its return.
StepsLeft(p) ==
    CASE p = "add_fetch" -> 5
      [] p = "add_max" -> 4
      [] p \in {"write_bytes", "release"} -> 3
      [] p \in {"sub", "reset_store", "neutralize_peak"} -> 2
      [] p = "ret" -> 1
      [] OTHER -> 0

\* A thread in the middle of an operation, and not stopped there.
Running(t) == pc[t] # "idle" /\ t \notin stopped

\* C18: no step of an operation waits on another thread (a thread inside an
\* operation can always take its next step), each step brings the operation
\* closer to its return, of which it is at most five steps away, and under fair
\* scheduling every started operation of a thread that is not itself stopped
\* returns, wherever the other threads have stopped: no thread stays inside an
\* operation from some moment on.
C18_NonBlocking ==
    /\ [](\A t \in Threads : Running(t) => ENABLED Step(t))
    /\ [][\A t \in Threads :
             (pc[t] # "idle" /\ pc'[t] # pc[t]) =>
                 StepsLeft(pc'[t]) < StepsLeft(pc[t])]_vars
    /\ \A t \in Threads : []<>~Running(t)

\* A reset_peak_usage is about to return although the other thread has stopped
\* inside an allocation, between its fetch_add and its fetch_max.
C18_Witness ==
    \E t \in Threads, u \in Threads :
        /\ u \in stopped
        /\ pc[u] = "add_max"
        /\ CURRENT > PEAK
        /\ pc[t] = "ret"
        /\ op[t] = "reset_peak_usage"
====
